---- MODULE Spec2Model ----
(***************************************************************************)
(* Model of the fetch interception pipeline of src/modules/hooks/fetch.ts: *)
(* the hook registry (_entriesText, _entriesRegex), the registration       *)
(* functions (hookPre, hookPost, hookTextPre, hookTextPost), the one-shot  *)
(* installer (_initOnce, init) and the pipeline executor (hookedFetch).    *)
(*                                                                         *)
(* JavaScript values are modelled as records.  A value that may be         *)
(* undefined carries its typeof in field t: "undefined", "string" or       *)
(* "object"; v holds the characters (or header tokens) of the value.       *)
(* Strings that the code compares or tests (URLs) are sequences of tokens, *)
(* so that exact comparison and pattern tests are computed, not assumed.   *)
(***************************************************************************)
EXTENDS Naturals, Sequences, FiniteSets, TLC

VARIABLES
    entriesText,    \* _entriesText : Map<string, HookEntry>
    entriesRegex,   \* _entriesRegex : [RegExp, HookEntry][]
    initOnce,       \* has _initOnce fired
    installs,       \* number of times "window.fetch = hookedFetch" has run
    windowFetch,    \* what window.fetch is bound to
    nRegs,          \* number of calls of a registration function so far
    regThrew,       \* did the last registration call throw a TypeError
    regLog,         \* history: the registration calls made, in order
    rq,             \* the intercepted calls, one record per call slot
    options,        \* a RequestInit object the caller passes to more than one call
    load,           \* observer: the load subscription (loadCallbacks, loadedOnce, ...)
    setting         \* settings: one Setting, its storage item and its listeners

vars == <<entriesText, entriesRegex, initOnce, installs, windowFetch, nRegs, regThrew, regLog, rq,
          options, load, setting>>

\* what the fetch hooks do not touch, unless a hook mutates the caller's object
Outside == <<options, load, setting>>

----------------------------------------------------------------------------
(* Bounds of the model *)

\* total number of registration calls explored
MaxHooks == 2

\* number of times the caller reads the body text of the response it got
MaxCallerReads == 1

\* call slots: one intercepted call is followed at a time
Reqs == {1}

\* call slots of two calls in flight at the same time
Slots == {1, 2}

\* number of body-text reads of a consumer that reads more than once
MaxTextReads == 2

----------------------------------------------------------------------------
(* JavaScript values *)

Undefined == [t |-> "undefined", v |-> <<>>]
Str(s) == [t |-> "string", v |-> s]
Obj(s) == [t |-> "object", v |-> s]

\* RequestInit: "def" is FALSE for a call made without an options object
NoInit == [def |-> FALSE, method |-> "undefined", headers |-> Undefined, body |-> Undefined]
EmptyInit == [def |-> TRUE, method |-> "undefined", headers |-> Undefined, body |-> Undefined]
MkInit(m, h, b) == [def |-> TRUE, method |-> m, headers |-> h, body |-> b]

\* the three request representations: a string, a URL object, a Request
StringInput(u) ==
    [kind |-> "string", url |-> u, method |-> "undefined", headers |-> Undefined,
     body |-> Undefined, credentials |-> "undefined"]
URLInput(u) ==
    [kind |-> "URL", url |-> u, method |-> "undefined", headers |-> Undefined,
     body |-> Undefined, credentials |-> "undefined"]
RequestInput(u, m, h, b, c) ==
    [kind |-> "Request", url |-> u, method |-> m, headers |-> h, body |-> b,
     credentials |-> c]

\* URL strings, as token sequences
Foo == <<"/foo">>
Bar123 == <<"/bar/", "123">>
Baz == <<"/baz">>
AbsFoo == <<"https://host">> \o Foo
AbsBar123 == <<"https://host">> \o Bar123
AbsBaz == <<"https://host">> \o Baz

\* length in characters of a URL token
TokenLength(token) ==
    CASE token = "https://host" -> 12
      [] token = "/bar/" -> 5
      [] token = "/foo" -> 4
      [] token = "/baz" -> 4
      [] token = "123" -> 3
      [] OTHER -> 1

\* String.prototype.length, and the character offset at which token i starts
RECURSIVE StringLength(_)
StringLength(url) ==
    IF url = <<>> THEN 0 ELSE TokenLength(Head(url)) + StringLength(Tail(url))
OffsetOf(url, i) == StringLength(SubSeq(url, 1, i - 1))

\* a RegExp object: its source, its flags, its lastIndex property; obj tells
\* apart two objects made from the same literal
RegExpObject(src, flags, obj) ==
    [type |-> "RegExp", src |-> src, flags |-> flags, lastIndex |-> 0, obj |-> obj]

\* matchers handed to the registration functions
FooEndpoint == [type |-> "string", src |-> Foo]
BarPattern == RegExpObject(<<"/bar/", ".*">>, "", 1)
BadEndpoint == [type |-> "number", src |-> <<>>]
Bar123Endpoint == [type |-> "string", src |-> Bar123]
\* a second object of the literal of BarPattern, the same literal with the
\* global flag, and another pattern that matches "/bar/123"
BarPatternTwin == RegExpObject(<<"/bar/", ".*">>, "", 2)
BarGlobal == RegExpObject(<<"/bar/", ".*">>, "g", 3)
DigitsPattern == RegExpObject(<<"123", ".*">>, "", 4)

\* RegExp.prototype.exec for the patterns of the model, a literal token
\* followed by ".*": the search starts at lastIndex when the pattern is
\* global and at 0 otherwise; a match runs to the end of the string.  Gives
\* whether a match was found and the object with its lastIndex updated.
RegExpExec(regex, url) ==
    LET global == regex.flags = "g"
        start == IF global THEN regex.lastIndex ELSE 0
        found == /\ start <= StringLength(url)
                 /\ \E i \in 1..Len(url) :
                        url[i] = regex.src[1] /\ OffsetOf(url, i) >= start
    IN  [found |-> found,
         regex |-> IF ~global THEN regex
                   ELSE [regex EXCEPT !.lastIndex = IF found THEN StringLength(url) ELSE 0]]

\* RegExp.prototype.test: the result of exec as a boolean
RegExpTest(regex, url) == RegExpExec(regex, url).found

\* RegExp.prototype.toString: the source and the flags
RegExpToString(regex) == <<regex.src, regex.flags>>

\* String.prototype.toUpperCase on the characters of the model
UpperChar(c) ==
    CASE c = "h" -> "H"
      [] c = "i" -> "I"
      [] c = "y" -> "Y"
      [] c = "o" -> "O"
      [] OTHER -> c
toUpperCase(s) == [i \in 1..Len(s) |-> UpperChar(s[i])]

----------------------------------------------------------------------------
(* Callbacks.  A callback is a record: kind names what the callback does,  *)
(* f names the user's text function of a text adapter ("none" otherwise).  *)

\* raw pre-callbacks
\*   "A", "B"  : call original once with a header token appended, return its promise
\*   "toPost"  : (req, init, orig) => orig(req, {...init, method: 'POST'})
\*   "mock"    : never call original, resolve with a response of their own
\*   "hang"    : never call original, never resolve
RawPre == {[kind |-> k, f |-> "none"] : k \in {"A", "B", "toPost", "mock", "hang"}}

\* raw post-callbacks
\*   "read" : read response.text(), then call original
\*   "mark" : set a property on the response, then call original
\*   "halt" : never call original
RawPost == {[kind |-> k, f |-> "none"] : k \in {"read", "mark", "halt"}}

\* user text functions: (body, orig) => orig(body) and (text, orig) => orig(text.toUpperCase());
\* "throw" is a text callback that throws before calling orig
TextFns == {"id", "upper"}

\* "append" is (text, orig) => orig(text + 'x')
TextApply(f, s) ==
    IF f = "upper" THEN toUpperCase(s)
    ELSE IF f = "append" THEN Append(s, "x")
    ELSE s

\* body texts the transport answers with
RespTexts == {<<"h", "i">>, <<"y", "o">>}

MockText == <<"m">>

\* the body text a "set" text callback hands to its continuation:
\* (body, orig) => orig('s')
SetText == <<"s">>

\* what a hookTextPre text callback f passes to its continuation for a body
UserBody(f, body) ==
    IF f = "set" THEN Str(SetText)
    ELSE IF body.t = "undefined" THEN body
    ELSE Str(TextApply(f, body.v))

\* callbacks that fail
\*   pre "throw"  : async () => { throw error }, the returned promise rejects
\*   post "throw" : throws before calling original
ThrowingPre == [kind |-> "throw", f |-> "none"]
ThrowingPost == [kind |-> "throw", f |-> "none"]

----------------------------------------------------------------------------
(* Registry *)

NewEntry(pre, post) == [pre_callback |-> pre, post_callback |-> post]

NoEntry == [type |-> "none", src |-> <<>>]

\* variant of RegexIndex: finds the element holding the very same object
RegexIndexByIdentity(regex) ==
    IF \E i \in 1..Len(entriesRegex) : entriesRegex[i][1].obj = regex.obj
    THEN CHOOSE i \in 1..Len(entriesRegex) : entriesRegex[i][1].obj = regex.obj
    ELSE 0

\* index of the _entriesRegex element whose pattern has the same source, or 0
RegexIndex(regex) ==
    IF \E i \in 1..Len(entriesRegex) :
           RegExpToString(entriesRegex[i][1]) = RegExpToString(regex)
    THEN CHOOSE i \in 1..Len(entriesRegex) :
           /\ RegExpToString(entriesRegex[i][1]) = RegExpToString(regex)
           /\ \A j \in 1..(i - 1) :
                  RegExpToString(entriesRegex[j][1]) # RegExpToString(regex)
    ELSE 0

\* the hook entry a matcher key refers to (entries are never removed or replaced)
EntryOf(key) ==
    IF key.type = "string" THEN entriesText[key.src]
    ELSE entriesRegex[RegexIndex(key)][2]

\* window.fetch = hookedFetch
init ==
    /\ installs' = installs + 1
    /\ windowFetch' = "hookedFetch"

\* Once.trigger(): run the wrapped function on the first call only
OnceTrigger ==
    IF initOnce
    THEN UNCHANGED <<initOnce, installs, windowFetch>>
    ELSE initOnce' = TRUE /\ init

\* variant of hookPre: an endpoint that is no RegExp is used as a string key
hookPreCoerces(endpoint, callback) ==
    /\ OnceTrigger
    /\ IF endpoint.type = "RegExp"
       THEN /\ entriesRegex' =
                 IF RegexIndex(endpoint) = 0
                 THEN Append(entriesRegex, <<endpoint, NewEntry(<<callback>>, <<>>)>>)
                 ELSE [entriesRegex EXCEPT ![RegexIndex(endpoint)][2].pre_callback =
                           Append(@, callback)]
            /\ regThrew' = FALSE
            /\ UNCHANGED entriesText
       ELSE /\ entriesText' =
                 IF endpoint.src \in DOMAIN entriesText
                 THEN [entriesText EXCEPT ![endpoint.src].pre_callback = Append(@, callback)]
                 ELSE [u \in DOMAIN entriesText \cup {endpoint.src} |->
                           IF u = endpoint.src THEN NewEntry(<<callback>>, <<>>) ELSE entriesText[u]]
            /\ regThrew' = FALSE
            /\ UNCHANGED entriesRegex

hookPre(endpoint, callback) ==
    /\ OnceTrigger
    /\ IF endpoint.type = "string"
       THEN /\ entriesText' =
                 IF endpoint.src \in DOMAIN entriesText
                 THEN [entriesText EXCEPT ![endpoint.src].pre_callback = Append(@, callback)]
                 ELSE [u \in DOMAIN entriesText \cup {endpoint.src} |->
                           IF u = endpoint.src THEN NewEntry(<<callback>>, <<>>) ELSE entriesText[u]]
            /\ regThrew' = FALSE
            /\ UNCHANGED entriesRegex
       ELSE IF endpoint.type = "RegExp"
       THEN /\ entriesRegex' =
                 IF RegexIndex(endpoint) = 0
                 THEN Append(entriesRegex, <<endpoint, NewEntry(<<callback>>, <<>>)>>)
                 ELSE [entriesRegex EXCEPT ![RegexIndex(endpoint)][2].pre_callback =
                           Append(@, callback)]
            /\ regThrew' = FALSE
            /\ UNCHANGED entriesText
       ELSE /\ regThrew' = TRUE
            /\ UNCHANGED <<entriesText, entriesRegex>>

\* variant of hookPost: installs by itself instead of through the shared _initOnce
hookPostReinstalls(endpoint, callback) ==
    /\ initOnce' = TRUE
    /\ init
    /\ IF endpoint.type = "string"
       THEN /\ entriesText' =
                 IF endpoint.src \in DOMAIN entriesText
                 THEN [entriesText EXCEPT ![endpoint.src].post_callback = Append(@, callback)]
                 ELSE [u \in DOMAIN entriesText \cup {endpoint.src} |->
                           IF u = endpoint.src THEN NewEntry(<<>>, <<callback>>) ELSE entriesText[u]]
            /\ regThrew' = FALSE
            /\ UNCHANGED entriesRegex
       ELSE IF endpoint.type = "RegExp"
       THEN /\ entriesRegex' =
                 IF RegexIndex(endpoint) = 0
                 THEN Append(entriesRegex, <<endpoint, NewEntry(<<>>, <<callback>>)>>)
                 ELSE [entriesRegex EXCEPT ![RegexIndex(endpoint)][2].post_callback =
                           Append(@, callback)]
            /\ regThrew' = FALSE
            /\ UNCHANGED entriesText
       ELSE /\ regThrew' = TRUE
            /\ UNCHANGED <<entriesText, entriesRegex>>

hookPost(endpoint, callback) ==
    /\ OnceTrigger
    /\ IF endpoint.type = "string"
       THEN /\ entriesText' =
                 IF endpoint.src \in DOMAIN entriesText
                 THEN [entriesText EXCEPT ![endpoint.src].post_callback = Append(@, callback)]
                 ELSE [u \in DOMAIN entriesText \cup {endpoint.src} |->
                           IF u = endpoint.src THEN NewEntry(<<>>, <<callback>>) ELSE entriesText[u]]
            /\ regThrew' = FALSE
            /\ UNCHANGED entriesRegex
       ELSE IF endpoint.type = "RegExp"
       THEN /\ entriesRegex' =
                 IF RegexIndex(endpoint) = 0
                 THEN Append(entriesRegex, <<endpoint, NewEntry(<<>>, <<callback>>)>>)
                 ELSE [entriesRegex EXCEPT ![RegexIndex(endpoint)][2].post_callback =
                           Append(@, callback)]
            /\ regThrew' = FALSE
            /\ UNCHANGED entriesText
       ELSE /\ regThrew' = TRUE
            /\ UNCHANGED <<entriesText, entriesRegex>>

hookTextPre(endpoint, callback) ==
    hookPre(endpoint, [kind |-> "textPre", f |-> callback])

hookTextPost(endpoint, callback) ==
    hookPost(endpoint, [kind |-> "textPost", f |-> callback])

\* _entriesRegex after findMatchingEntry(url): find has called test on the
\* patterns up to and including the first one that answered true
RegexAfterFind(url) ==
    IF url \in DOMAIN entriesText THEN entriesRegex
    ELSE [i \in 1..Len(entriesRegex) |->
            IF \A j \in 1..(i - 1) : ~RegExpTest(entriesRegex[j][1], url)
            THEN <<RegExpExec(entriesRegex[i][1], url).regex, entriesRegex[i][2]>>
            ELSE entriesRegex[i]]

findMatchingEntry(url) ==
    IF url \in DOMAIN entriesText
    THEN [type |-> "string", src |-> url]
    ELSE IF \E i \in 1..Len(entriesRegex) : RegExpTest(entriesRegex[i][1], url)
    THEN LET first == CHOOSE i \in 1..Len(entriesRegex) :
                     /\ RegExpTest(entriesRegex[i][1], url)
                     /\ \A j \in 1..(i - 1) : ~RegExpTest(entriesRegex[j][1], url)
         IN  entriesRegex[first][1]
    ELSE NoEntry

----------------------------------------------------------------------------
(* Response objects.  Each intercepted call has a heap of the Response     *)
(* objects created for it; a response is known by its index in the heap.   *)
(*   body   : the text of the underlying body stream                       *)
(*   used   : the body stream has been read (bodyUsed)                     *)
(*   text   : the text() accessor: native, or the override installed by a  *)
(*            hookTextPost adapter, which reads heap[clone] and applies f  *)
(*   marks  : properties set on the object by "mark" callbacks             *)
(*   from   : the transport call that produced it (0: made by a callback)  *)
(*   cloneOf: the response it was cloned from (0: not a clone)             *)

NativeText == [over |-> FALSE, clone |-> 0, f |-> "none"]

NewResponse(text, call) ==
    [body |-> text, used |-> FALSE, text |-> NativeText, marks |-> <<>>,
     from |-> call, cloneOf |-> 0]

\* Response.prototype.clone: a fresh object on the same body; own properties
\* set on the source (marks, an overridden text) are not copied
CloneResponse(heap, id) ==
    [body |-> heap[id].body, used |-> FALSE, text |-> NativeText, marks |-> <<>>,
     from |-> heap[id].from, cloneOf |-> id]

TypeError == [t |-> "TypeError", v |-> <<>>]

\* calling text() on heap[id]: the new heap and what the returned promise
\* settles with (the text, or a TypeError when the stream was already read)
ReadText(heap, id) ==
    LET o == heap[id]
        src == IF o.text.over THEN o.text.clone ELSE id
    IN  IF heap[src].used
        THEN [heap |-> heap, result |-> TypeError]
        ELSE [heap |-> [heap EXCEPT ![src].used = TRUE],
              result |-> Str(IF o.text.over
                             THEN TextApply(o.text.f, heap[src].body)
                             ELSE heap[src].body)]

----------------------------------------------------------------------------
(* One intercepted call *)

IdleReq ==
    [pc |-> "idle",
     argInput |-> StringInput(<<>>), argInit |-> NoInit,   \* what the caller passed
     input |-> StringInput(<<>>), init |-> NoInit,         \* hookedFetch's input, init
     url |-> <<>>,
     entry |-> NoEntry,       \* matcher of the entry findMatchingEntry returned
     pre |-> <<>>,            \* the pre-callbacks the then-chain was built from
     k |-> 0,                 \* position in the then-chain
     calls |-> <<>>,          \* the calls of _originalFetch, in order
     heap |-> <<>>,
     cur |-> 0,               \* the response the last settled stage produced
     ret |-> 0,               \* the response hookedFetch resolved with
     clone |-> 0,             \* clonedResponse, the object the post-callbacks get
     ran |-> <<>>,            \* callbacks invoked, in order
     reads |-> <<>>,          \* text() reads and their results
     err |-> "none",          \* what hookedFetch's promise rejected with
     failed |-> 0,            \* the call of _originalFetch that rejected (0: none)
     recv |-> <<>>,           \* history: the (input, init) each pre-callback was given
     given |-> <<>>,          \* history: the response each post-callback was given
     cont |-> <<>>,           \* history: post-callbacks whose continuation was called
     initRef |-> 0,           \* init is the caller's shared object (1) or an object of the call's own (0)
     regsAt |-> 0,            \* history: length of regLog when the entry was resolved
     nposts |-> 0]            \* history: length of post_callback when the post-chain ran

\* _originalFetch(input, init): the transport reads its arguments at the call
CallTransport(q) ==
    [q EXCEPT !.calls = Append(@, [input |-> q.input, init |-> q.init])]

\* variant of Resolve: the no-match path fetches eagerly and then once more
ResolveRefetches(q) ==
    LET key == findMatchingEntry(q.url)
    IN  IF key = NoEntry
        THEN [CallTransport(CallTransport(q)) EXCEPT !.entry = key, !.pc = "fetch",
                                                     !.regsAt = Len(regLog)]
        ELSE IF Len(EntryOf(key).pre_callback) > 0
        THEN [CallTransport(q) EXCEPT !.entry = key, !.pc = "fetch0",
                                      !.pre = EntryOf(key).pre_callback, !.k = 1,
                                      !.regsAt = Len(regLog)]
        ELSE [CallTransport(q) EXCEPT !.entry = key, !.pc = "fetch", !.regsAt = Len(regLog)]

\* lines 199-208 and 251: resolve the entry and issue the first transport call
Resolve(q) ==
    LET key == findMatchingEntry(q.url)
    IN  IF key = NoEntry
        THEN [CallTransport(q) EXCEPT !.entry = key, !.pc = "fetch", !.regsAt = Len(regLog)]
        ELSE IF Len(EntryOf(key).pre_callback) > 0
        THEN [CallTransport(q) EXCEPT !.entry = key, !.pc = "fetch0",
                                      !.pre = EntryOf(key).pre_callback, !.k = 1,
                                      !.regsAt = Len(regLog)]
        ELSE [CallTransport(q) EXCEPT !.entry = key, !.pc = "fetch", !.regsAt = Len(regLog)]

\* lines 158-197: the URL string of the input; a Request is taken apart into init
Normalize(q) ==
    IF q.input.kind = "string" THEN [q EXCEPT !.url = q.input.url]
    ELSE IF q.input.kind = "URL" THEN [q EXCEPT !.url = q.input.url]
    ELSE LET i0 == IF q.init.def THEN q.init ELSE EmptyInit
             i1 == IF q.input.headers.t # "undefined"
                   THEN [i0 EXCEPT !.headers = q.input.headers] ELSE i0
             i2 == IF q.input.method # "undefined"
                   THEN [i1 EXCEPT !.method = q.input.method] ELSE i1
         IN  [q EXCEPT !.url = q.input.url, !.init = i2,
                       !.input = StringInput(q.input.url)]

\* a Request whose body is read before the entry is resolved (line 180)
ReadsBody(input) ==
    input.kind = "Request" /\ input.method # "GET" /\ input.method # "HEAD"

\* {...init, headers: [...headers, token]}
WithHeader(i, token) ==
    [i EXCEPT !.def = TRUE,
              !.headers = Obj(IF @.t = "undefined" THEN <<token>> ELSE Append(@.v, token))]

\* {...init, method: m}
WithMethod(i, m) == [i EXCEPT !.def = TRUE, !.method = m]

Ran(q, phase, i, cb) ==
    [q EXCEPT !.ran = Append(@, [phase |-> phase, i |-> i, kind |-> cb.kind, f |-> cb.f])]

\* variant of original: calls the transport with its arguments without storing
\* them in hookedFetch's input and init
originalKeepsAmbient(q, newInput, newInit) ==
    [q EXCEPT !.calls = Append(@, [input |-> newInput, init |-> newInit]), !.pc = "cb"]

\* original(_input, _init) of lines 213-217: store the arguments in
\* hookedFetch's input and init, then call the transport with them
original(q, newInput, newInit) ==
    [CallTransport([q EXCEPT !.input = newInput, !.init = newInit]) EXCEPT !.pc = "cb"]

\* a stage of the then-chain has settled with response id: on to the next one
Settled(q, id) ==
    [q EXCEPT !.cur = id, !.k = q.k + 1,
              !.pc = IF q.k + 1 > Len(q.pre) THEN "post" ELSE "pre"]

\* variant of TextPreAdapter: a body that is not a string rejects with a TypeError
TextPreAdapterRejects(q0, f) ==
    IF q0.init.def /\ q0.init.body.t # "undefined" /\ q0.init.body.t # "string"
    THEN [q0 EXCEPT !.pc = "rejected", !.err = "TypeError"]
    ELSE LET q == Ran(q0, "user", q0.k, [kind |-> "textPre", f |-> f])
             body == IF q.init.def THEN q.init.body ELSE Undefined
         IN  IF f = "throw"
             THEN [q EXCEPT !.pc = "rejected", !.err = "CallbackError"]
             ELSE IF f = "upper" /\ body.t = "undefined"
             THEN [q EXCEPT !.pc = "rejected", !.err = "TypeError"]
             ELSE LET newBody == IF body.t = "undefined" THEN body
                                 ELSE Str(TextApply(f, body.v))
                      i1 == IF newBody.t # "undefined" /\ q.init.def
                            THEN [q.init EXCEPT !.body = newBody] ELSE q.init
                  IN  original(q, q.input, i1)

\* variant of TextPreAdapter: a body that is not a string is dropped from the
\* request before the continuation is called
TextPreAdapterDropsBody(q0, f) ==
    IF q0.init.def /\ q0.init.body.t # "undefined" /\ q0.init.body.t # "string"
    THEN original(q0, q0.input, [q0.init EXCEPT !.body = Undefined])
    ELSE LET q == Ran(q0, "user", q0.k, [kind |-> "textPre", f |-> f])
             body == IF q.init.def THEN q.init.body ELSE Undefined
         IN  IF f = "throw"
             THEN [q EXCEPT !.pc = "rejected", !.err = "CallbackError"]
             ELSE IF f = "upper" /\ body.t = "undefined"
             THEN [q EXCEPT !.pc = "rejected", !.err = "TypeError"]
             ELSE LET newBody == IF body.t = "undefined" THEN body
                                 ELSE Str(TextApply(f, body.v))
                      i1 == IF newBody.t # "undefined" /\ q.init.def
                            THEN [q.init EXCEPT !.body = newBody] ELSE q.init
                  IN  original(q, q.input, i1)

\* the raw pre-callback registered by hookTextPre (lines 86-107)
TextPreAdapter(q0, f) ==
    IF q0.init.def /\ q0.init.body.t # "undefined" /\ q0.init.body.t # "string"
    THEN original(q0, q0.input, q0.init)
    ELSE LET q == Ran(q0, "user", q0.k, [kind |-> "textPre", f |-> f])
             body == IF q.init.def THEN q.init.body ELSE Undefined
         IN  IF f = "throw"
             THEN [q EXCEPT !.pc = "rejected", !.err = "CallbackError"]
             ELSE IF f = "upper" /\ body.t = "undefined"
             THEN [q EXCEPT !.pc = "rejected", !.err = "TypeError"]
             ELSE LET newBody == UserBody(f, body)
                      i1 == IF newBody.t # "undefined" /\ q.init.def
                            THEN [q.init EXCEPT !.body = newBody] ELSE q.init
                  IN  original(q, q.input, i1)

\* variant of RunPreCallback: a then-handler that catches what the callback
\* throws and goes on with the response it was handed
RunPreCallbackCatches(q) ==
    LET cb == q.pre[q.k]
        q1 == [Ran(q, "pre", q.k, cb) EXCEPT
                   !.recv = Append(@, [input |-> q.input, init |-> q.init,
                                       ncalls |-> Len(q.calls)])]
    IN  CASE cb.kind = "A" -> original(q1, q1.input, WithHeader(q1.init, "A"))
          [] cb.kind = "B" -> original(q1, q1.input, WithHeader(q1.init, "B"))
          [] cb.kind = "toPost" -> original(q1, q1.input, WithMethod(q1.init, "POST"))
          [] cb.kind = "mock" ->
                Settled([q1 EXCEPT !.heap = Append(@, NewResponse(MockText, 0))],
                        Len(q1.heap) + 1)
          [] cb.kind = "hang" -> [q1 EXCEPT !.pc = "hung"]
          [] cb.kind = "throw" ->
                Settled([q1 EXCEPT !.heap = Append(@, NewResponse(MockText, 0))],
                        Len(q1.heap) + 1)
          [] OTHER -> TextPreAdapter(q1, cb.f)

\* the then-handler of lines 211-220 for the callback at position k
RunPreCallback(q) ==
    LET cb == q.pre[q.k]
        q1 == [Ran(q, "pre", q.k, cb) EXCEPT
                   !.recv = Append(@, [input |-> q.input, init |-> q.init,
                                       ncalls |-> Len(q.calls)])]
    IN  CASE cb.kind = "A" -> original(q1, q1.input, WithHeader(q1.init, "A"))
          [] cb.kind = "B" -> original(q1, q1.input, WithHeader(q1.init, "B"))
          [] cb.kind = "toPost" -> original(q1, q1.input, WithMethod(q1.init, "POST"))
          [] cb.kind = "mock" ->
                Settled([q1 EXCEPT !.heap = Append(@, NewResponse(MockText, 0))],
                        Len(q1.heap) + 1)
          [] cb.kind = "hang" -> [q1 EXCEPT !.pc = "hung"]
          [] cb.kind = "throw" -> [q1 EXCEPT !.pc = "rejected", !.err = "CallbackError"]
          [] OTHER -> TextPreAdapter(q1, cb.f)

\* the raw post-callback registered by hookTextPost (lines 117-132), up to its
\* call of original: clone the response, override its text accessor
TextPostAdapter(q, response, f) ==
    IF q.heap[response].used
    THEN [q EXCEPT !.err = "TypeError"]
    ELSE LET originalClone == Len(q.heap) + 1
         IN  [q EXCEPT !.heap = [Append(@, CloneResponse(@, response))
                                     EXCEPT ![response].text =
                                         [over |-> TRUE, clone |-> originalClone, f |-> f]]]

\* variant of applyNextPostCallback: a loop over the post-callbacks that does
\* not wait for a callback to call its continuation
RECURSIVE applyAllPostCallbacks(_, _, _)
applyAllPostCallbacks(q, index, clonedResponse) ==
    IF index > Len(EntryOf(q.entry).post_callback)
    THEN q
    ELSE LET cb == EntryOf(q.entry).post_callback[index]
             q1 == [Ran(q, "post", index, cb) EXCEPT !.given = Append(@, clonedResponse)]
         IN  CASE cb.kind = "mark" ->
                    applyAllPostCallbacks(
                        [q1 EXCEPT !.heap[clonedResponse].marks = Append(@, index),
                                   !.cont = Append(@, index)],
                        index + 1, clonedResponse)
               [] cb.kind = "throw" -> [q1 EXCEPT !.err = "CallbackError"]
               [] OTHER -> applyAllPostCallbacks(q1, index + 1, clonedResponse)

\* applyNextPostCallback of lines 230-242 and 257-268; index counts from 1
RECURSIVE applyNextPostCallback(_, _, _)
applyNextPostCallback(q, index, clonedResponse) ==
    IF index > Len(EntryOf(q.entry).post_callback)
    THEN q
    ELSE LET cb == EntryOf(q.entry).post_callback[index]
             q1 == [Ran(q, "post", index, cb) EXCEPT !.given = Append(@, clonedResponse)]
         IN  CASE cb.kind = "read" ->
                    LET rd == ReadText(q1.heap, clonedResponse)
                    IN  applyNextPostCallback(
                            [q1 EXCEPT !.heap = rd.heap,
                                       !.reads = Append(@, [by |-> "post", i |-> index,
                                                            resp |-> clonedResponse,
                                                            result |-> rd.result]),
                                       !.cont = Append(@, index)],
                            index + 1, clonedResponse)
               [] cb.kind = "mark" ->
                    applyNextPostCallback(
                        [q1 EXCEPT !.heap[clonedResponse].marks = Append(@, index),
                                   !.cont = Append(@, index)],
                        index + 1, clonedResponse)
               [] cb.kind = "halt" -> q1
               [] cb.kind = "throw" -> [q1 EXCEPT !.err = "CallbackError"]
               [] OTHER ->
                    LET q2 == TextPostAdapter(q1, clonedResponse, cb.f)
                    IN  IF q2.err # "none" THEN q2
                        ELSE applyNextPostCallback([q2 EXCEPT !.cont = Append(@, index)],
                                                   index + 1, clonedResponse)

\* lines 226-245 and 253-270: clone the response and run the post-callbacks on
\* the clone; the clone is the last object of the heap before the chain runs
PostCallbacks(q, response) ==
    LET clonedResponse == Len(q.heap) + 1
    IN  applyNextPostCallback(
            [q EXCEPT !.heap = Append(@, CloneResponse(@, response)),
                      !.clone = clonedResponse,
                      !.nposts = Len(EntryOf(q.entry).post_callback)],
            1, clonedResponse)

Finish(q, id) ==
    IF q.err # "none" THEN [q EXCEPT !.pc = "rejected"]
    ELSE [q EXCEPT !.ret = id, !.pc = "returned"]

\* lines 223-247: the then-chain has settled with q.cur
AfterPreChain(q) ==
    IF Len(EntryOf(q.entry).post_callback) > 0
    THEN Finish(PostCallbacks(q, q.cur), q.cur)
    ELSE Finish(q, q.cur)

\* variant of AfterFetch: returns response, as the branch with pre-callbacks does
AfterFetchReturnsOriginal(q, response) ==
    IF Len(EntryOf(q.entry).post_callback) > 0
    THEN Finish(PostCallbacks(q, response), response)
    ELSE Finish(q, response)

\* lines 251-274: no pre-callbacks, the transport has answered with response
AfterFetch(q, response) ==
    IF Len(EntryOf(q.entry).post_callback) > 0
    THEN Finish(PostCallbacks(q, response), Len(q.heap) + 1)
    ELSE Finish(q, response)

----------------------------------------------------------------------------
(* What callers pass to fetch *)

Inits ==
    { NoInit,
      MkInit("GET", Undefined, Undefined),
      MkInit("POST", Obj(<<"h">>), Str(<<"a">>)),
      MkInit("POST", Undefined, Obj(<<"blob">>)) }

Inputs ==
    {StringInput(u) : u \in {Foo, Bar123, Baz}}
    \cup {URLInput(u) : u \in {AbsFoo, AbsBar123}}
    \cup { RequestInput(AbsBar123, "GET", Obj(<<"r">>), Undefined, "include"),
           RequestInput(AbsBar123, "POST", Obj(<<"r">>), Str(<<"b">>), "include"),
           RequestInput(AbsBaz, "POST", Obj(<<"r">>), Obj(<<"stream">>), "include") }

Endpoints == {FooEndpoint, BarPattern, BadEndpoint}

\* settings/simple-api.ts: values of type SettingValueType as the model
\* distinguishes them; typeof NaN is 'number'
Num(n) == [t |-> "number", nan |-> FALSE, n |-> n]
NaN == [t |-> "number", nan |-> TRUE, n |-> 0]
StringValue == [t |-> "string", nan |-> FALSE, n |-> 0]
NullValue == [t |-> "null", nan |-> FALSE, n |-> 0]

\* JSON.stringify(value): a finite number is written as its digits, NaN as
\* null, a string in quotes
JSONstringify(value) ==
    IF value.t = "number" /\ ~value.nan THEN [lit |-> "number", n |-> value.n]
    ELSE IF value.t = "string" THEN [lit |-> "string", n |-> 0]
    ELSE [lit |-> "null", n |-> 0]

\* JSON.parse(text)
JSONparse(text) ==
    IF text.lit = "number" THEN Num(text.n)
    ELSE IF text.lit = "string" THEN StringValue
    ELSE NullValue

\* the setting of createNumber(id, 0, 0, 10)
NumberSetting == [defaultValue |-> Num(0), min |-> 0, max |-> 10]

\* the validator of createNumber (lines 151-156): the comparisons with min
\* and max are both false for NaN
validator(value) ==
    IF value.t # "number" THEN FALSE
    ELSE IF ~value.nan /\ value.n < NumberSetting.min THEN FALSE
    ELSE IF ~value.nan /\ value.n > NumberSetting.max THEN FALSE
    ELSE TRUE

\* the item _load leaves in an empty localStorage (lines 46-61)
StoredDefault == JSONstringify(NumberSetting.defaultValue)

\* the options object of a caller that reuses it for several calls
SharedInit == MkInit("POST", Undefined, Str(<<"a">>))

\* observer: nothing subscribed, the loading screen still there
LoadInit ==
    [loadInitialized |-> FALSE,  \* observer.ts line 151
     loadedOnce |-> FALSE,       \* line 152
     loadCallbacks |-> <<>>,     \* line 150
     entriesDeletion |-> <<>>,   \* _entriesDeletion (line 13): the selectors subscribed
     observing |-> FALSE,        \* the MutationObserver has been started
     called |-> <<>>,            \* history: the load callbacks called, in order
     atLoad |-> <<>>,            \* history: loadCallbacks at the first matching deletion
     logged |-> 0,               \* history: errors written by console.error
     deletions |-> 0]            \* history: removed elements handled

\* settings: a Setting just constructed, its default saved, no listener
SettingInit ==
    [stored |-> StoredDefault,   \* localStorage item of the setting, saved by _load (line 60)
     listeners |-> <<>>,         \* _listeners (line 36)
     op |-> "new",               \* history: the last operation made
     value |-> NullValue,        \* history: the argument of the last setValue
     accepted |-> FALSE,         \* history: the validator's answer for it
     before |-> StoredDefault,   \* history: the item before the last setValue
     listenersAt |-> <<>>,       \* history: _listeners when the last setValue was called
     notified |-> <<>>,          \* history: the listener calls made by the last setValue
     ops |-> 0]                  \* history: operations made

----------------------------------------------------------------------------
(* Actions *)

Init ==
    /\ entriesText = [u \in {} |-> NewEntry(<<>>, <<>>)]
    /\ entriesRegex = <<>>
    /\ initOnce = FALSE
    /\ installs = 0
    /\ windowFetch = "native"
    /\ nRegs = 0
    /\ regThrew = FALSE
    /\ regLog = <<>>
    /\ rq = [r \in Slots |-> IdleReq]
    /\ options = SharedInit
    /\ load = LoadInit
    /\ setting = SettingInit

HookPre ==
    /\ nRegs < MaxHooks
    /\ \E endpoint \in Endpoints, callback \in RawPre : hookPre(endpoint, callback)
    /\ nRegs' = nRegs + 1
    /\ UNCHANGED <<regLog, rq, Outside>>

HookPost ==
    /\ nRegs < MaxHooks
    /\ \E endpoint \in Endpoints, callback \in RawPost : hookPost(endpoint, callback)
    /\ nRegs' = nRegs + 1
    /\ UNCHANGED <<regLog, rq, Outside>>

HookTextPre ==
    /\ nRegs < MaxHooks
    /\ \E endpoint \in Endpoints, callback \in {"id"} : hookTextPre(endpoint, callback)
    /\ nRegs' = nRegs + 1
    /\ UNCHANGED <<regLog, rq, Outside>>

HookTextPost ==
    /\ nRegs < MaxHooks
    /\ \E endpoint \in Endpoints, callback \in TextFns : hookTextPost(endpoint, callback)
    /\ nRegs' = nRegs + 1
    /\ UNCHANGED <<regLog, rq, Outside>>

Registry == <<entriesText, entriesRegex, initOnce, installs, windowFetch, nRegs, regThrew, regLog>>

\* what a call of findMatchingEntry leaves alone
Installed == <<entriesText, initOnce, installs, windowFetch, nRegs, regThrew, regLog>>

\* a caller calls window.fetch(input, init) while it is bound to hookedFetch:
\* lines 158-208 up to the first await
hookedFetch(r, input, reqInit) ==
    /\ windowFetch = "hookedFetch"
    /\ rq[r].pc = "idle"
    /\ LET q == Normalize([IdleReq EXCEPT !.argInput = input, !.argInit = reqInit,
                                          !.input = input, !.init = reqInit])
       IN  /\ rq' = [rq EXCEPT ![r] = IF ReadsBody(input)
                                      THEN [q EXCEPT !.pc = "readBody"]
                                      ELSE Resolve(q)]
           /\ entriesRegex' = IF ReadsBody(input) THEN entriesRegex
                                                  ELSE RegexAfterFind(q.url)
    /\ UNCHANGED <<Installed, Outside>>

HookedFetch == \E r \in Reqs, input \in Inputs, reqInit \in Inits : hookedFetch(r, input, reqInit)

\* lines 183-193: clonedRequest.text() has settled
ReadBodyDone(r) ==
    /\ rq[r].pc = "readBody"
    /\ LET q == rq[r]
           body == q.argInput.body
       IN  rq' = [rq EXCEPT ![r] =
                    Resolve(IF body.t = "string" /\ body.v # <<>>
                            THEN [q EXCEPT !.init.body = body]
                            ELSE q)]
    /\ entriesRegex' = RegexAfterFind(rq[r].url)
    /\ UNCHANGED <<Installed, Outside>>

RequestBodyRead == \E r \in Reqs : ReadBodyDone(r)

\* the pending call of _originalFetch resolves with a new response.  The
\* response of the call of line 207 is handed to the first then-handler,
\* which ignores its parameter: no reference to it is kept.
originalFetchResolves(r, text) ==
    /\ rq[r].pc \in {"fetch", "fetch0", "cb"}
    /\ LET q0 == rq[r]
           id == Len(q0.heap) + 1
           q == [q0 EXCEPT !.heap = Append(@, NewResponse(text, Len(q0.calls)))]
       IN  rq' = [rq EXCEPT ![r] =
                    IF q.pc = "fetch0" THEN [q0 EXCEPT !.pc = "pre"]
                    ELSE IF q.pc = "cb" THEN Settled(q, id)
                    ELSE IF q.entry = NoEntry THEN Finish(q, id)
                    ELSE AfterFetch(q, id)]
    /\ UNCHANGED <<Registry, Outside>>

TransportResponds == \E r \in Reqs, text \in RespTexts : originalFetchResolves(r, text)

PreCallback ==
    \E r \in Reqs :
        /\ rq[r].pc = "pre"
        /\ rq' = [rq EXCEPT ![r] = RunPreCallback(rq[r])]
        /\ UNCHANGED <<Registry, Outside>>

PreChainSettled ==
    \E r \in Reqs :
        /\ rq[r].pc = "post"
        /\ rq' = [rq EXCEPT ![r] = AfterPreChain(rq[r])]
        /\ UNCHANGED <<Registry, Outside>>

CallerReads(q) == Len(SelectSeq(q.reads, LAMBDA x : x.by = "caller"))

\* the caller reads the body text of the response it was given
CallerReadsText ==
    \E r \in Reqs :
        /\ rq[r].pc = "returned"
        /\ CallerReads(rq[r]) < MaxCallerReads
        /\ LET rd == ReadText(rq[r].heap, rq[r].ret)
           IN  rq' = [rq EXCEPT ![r].heap = rd.heap,
                                ![r].reads = Append(@, [by |-> "caller", i |-> 0,
                                                        resp |-> rq[r].ret,
                                                        result |-> rd.result])]
        /\ UNCHANGED <<Registry, Outside>>

\* the same, for a consumer that reads the body text up to MaxTextReads times
ConsumerReadsText ==
    \E r \in Reqs :
        /\ rq[r].pc = "returned"
        /\ CallerReads(rq[r]) < MaxTextReads
        /\ LET rd == ReadText(rq[r].heap, rq[r].ret)
           IN  rq' = [rq EXCEPT ![r].heap = rd.heap,
                                ![r].reads = Append(@, [by |-> "caller", i |-> 0,
                                                        resp |-> rq[r].ret,
                                                        result |-> rd.result])]
        /\ UNCHANGED <<Registry, Outside>>

\* the call is over and its history is dropped; the slot takes the next call
Forget ==
    \E r \in Reqs :
        /\ rq[r].pc \in {"returned", "rejected", "hung"}
        /\ rq' = [rq EXCEPT ![r] = IdleReq]
        /\ UNCHANGED <<Registry, Outside>>

Next ==
    \/ HookPre
    \/ HookPost
    \/ HookTextPre
    \/ HookTextPost
    \/ HookedFetch
    \/ RequestBodyRead
    \/ TransportResponds
    \/ PreCallback
    \/ PreChainSettled
    \/ CallerReadsText
    \/ Forget

Spec == Init /\ [][Next]_vars

----------------------------------------------------------------------------
(* Failures: callbacks that throw or reject, a transport that rejects.     *)
(* Registration calls are recorded in regLog.                              *)

\* the pending call of _originalFetch rejects.  Nothing on the way catches a
\* rejection: the then-handlers of lines 210-220 are fulfilment handlers, the
\* raw callbacks return original's promise, the text adapter forwards it to
\* reject, and lines 223 and 251 await without a try.
originalFetchRejects(r) ==
    /\ rq[r].pc \in {"fetch", "fetch0", "cb"}
    /\ rq' = [rq EXCEPT ![r].pc = "rejected", ![r].err = "TransportError",
                        ![r].failed = Len(rq[r].calls)]
    /\ UNCHANGED <<Registry, Outside>>

TransportRejects == \E r \in Reqs : originalFetchRejects(r)

LogEntry(fn, endpoint, callback) == [fn |-> fn, endpoint |-> endpoint, callback |-> callback]

RegisterPre(endpoints, callbacks) ==
    /\ nRegs < MaxHooks
    /\ \E endpoint \in endpoints, callback \in callbacks :
          /\ hookPre(endpoint, callback)
          /\ regLog' = Append(regLog, LogEntry("hookPre", endpoint, callback))
    /\ nRegs' = nRegs + 1
    /\ UNCHANGED <<rq, Outside>>

RegisterPost(endpoints, callbacks) ==
    /\ nRegs < MaxHooks
    /\ \E endpoint \in endpoints, callback \in callbacks :
          /\ hookPost(endpoint, callback)
          /\ regLog' = Append(regLog, LogEntry("hookPost", endpoint, callback))
    /\ nRegs' = nRegs + 1
    /\ UNCHANGED <<rq, Outside>>

RegisterTextPre(endpoints, callbacks) ==
    /\ nRegs < MaxHooks
    /\ \E endpoint \in endpoints, callback \in callbacks :
          /\ hookTextPre(endpoint, callback)
          /\ regLog' = Append(regLog, LogEntry("hookTextPre", endpoint,
                                               [kind |-> "textPre", f |-> callback]))
    /\ nRegs' = nRegs + 1
    /\ UNCHANGED <<rq, Outside>>

RegisterTextPost(endpoints, callbacks) ==
    /\ nRegs < MaxHooks
    /\ \E endpoint \in endpoints, callback \in callbacks :
          /\ hookTextPost(endpoint, callback)
          /\ regLog' = Append(regLog, LogEntry("hookTextPost", endpoint,
                                               [kind |-> "textPost", f |-> callback]))
    /\ nRegs' = nRegs + 1
    /\ UNCHANGED <<rq, Outside>>

FailEndpoints == {FooEndpoint, BarPattern}
FailPre == {[kind |-> k, f |-> "none"] : k \in {"A", "mock", "hang"}} \cup {ThrowingPre}
FailPost == {[kind |-> k, f |-> "none"] : k \in {"mark", "halt"}} \cup {ThrowingPost}
FailTextFns == {"id", "throw"}
FailInputs == {StringInput(u) : u \in {Foo, Bar123, Baz}}
FailInits == {NoInit, MkInit("POST", Undefined, Str(<<"a">>)),
              MkInit("POST", Undefined, Obj(<<"blob">>))}

FetchFail == \E r \in Reqs, input \in FailInputs, reqInit \in FailInits : hookedFetch(r, input, reqInit)

NextFail ==
    \/ RegisterPre(FailEndpoints, FailPre)
    \/ RegisterPost(FailEndpoints, FailPost)
    \/ RegisterTextPre(FailEndpoints, FailTextFns)
    \/ FetchFail
    \/ TransportResponds
    \/ TransportRejects
    \/ PreCallback
    \/ PreChainSettled
    \/ Forget

SpecFail == Init /\ [][NextFail]_vars

----------------------------------------------------------------------------
(* Text hooks: text callbacks that replace the body, requests made with    *)
(* and without an options object, Request objects, repeated reads.         *)

TextEndpoints == {FooEndpoint, BarPattern}
TextPreFns == {"id", "upper", "set"}
TextInputs ==
    { StringInput(Foo),
      RequestInput(AbsBar123, "POST", Obj(<<"r">>), Str(<<"b">>), "include"),
      RequestInput(AbsBar123, "POST", Obj(<<"r">>), Obj(<<"stream">>), "include") }
TextInits == {NoInit, MkInit("GET", Undefined, Undefined), MkInit("POST", Undefined, Str(<<"a">>))}

FetchText == \E r \in Reqs, input \in TextInputs, reqInit \in TextInits : hookedFetch(r, input, reqInit)

NextText ==
    \/ RegisterTextPre(TextEndpoints, TextPreFns)
    \/ RegisterTextPost(TextEndpoints, TextFns)
    \/ FetchText
    \/ RequestBodyRead
    \/ TransportResponds
    \/ PreCallback
    \/ PreChainSettled
    \/ ConsumerReadsText
    \/ Forget

SpecText == Init /\ [][NextText]_vars

----------------------------------------------------------------------------
(* Two calls, one per slot, that were given the same options object *)

\* a call that has been made and has not settled
InFlight(q) == q.pc \in {"readBody", "fetch0", "fetch", "pre", "cb", "post"}

ConcEndpoints == {FooEndpoint}

ConcTextFns == {"id", "append"}

ConcPre == {[kind |-> "A", f |-> "none"]}

\* fetch('/foo', options): init is the caller's object itself (line 171 makes
\* a new object only when there is none)
fetchShared(r) ==
    /\ windowFetch = "hookedFetch"
    /\ rq[r].pc = "idle"
    /\ LET input == StringInput(Foo)
           q == Normalize([IdleReq EXCEPT !.argInput = input, !.argInit = options,
                                          !.input = input, !.init = options,
                                          !.initRef = 1])
       IN  /\ rq' = [rq EXCEPT ![r] = Resolve(q)]
           /\ entriesRegex' = RegexAfterFind(q.url)
    /\ UNCHANGED <<Installed, Outside>>

FetchShared == \E r \in Slots : fetchShared(r)

\* the then-handler of lines 211-220 in slot r.  The adapter of hookTextPre
\* assigns init.body on the object it was given (lines 96-97): when that is
\* the caller's object, the caller and every call holding it see the new
\* body.  A raw callback of ConcPre passes an object of its own.
preCallbackShared(r) ==
    /\ rq[r].pc = "pre"
    /\ LET q == rq[r]
           cb == q.pre[q.k]
           q1 == RunPreCallback(q)
           inPlace == cb.kind = "textPre" /\ q.initRef = 1
           q2 == IF cb.kind = "textPre" THEN q1 ELSE [q1 EXCEPT !.initRef = 0]
       IN  /\ rq' = [s \in Slots |->
                       IF s = r THEN q2
                       ELSE IF inPlace /\ rq[s].initRef = 1
                       THEN [rq[s] EXCEPT !.init = q1.init]
                       ELSE rq[s]]
           /\ options' = IF inPlace THEN q1.init ELSE options
    /\ UNCHANGED <<Registry, load, setting>>

PreCallbackShared == \E r \in Slots : preCallbackShared(r)

TransportRespondsIn == \E r \in Slots, text \in RespTexts : originalFetchResolves(r, text)

ChainSettledIn ==
    \E r \in Slots :
        /\ rq[r].pc = "post"
        /\ rq' = [rq EXCEPT ![r] = AfterPreChain(rq[r])]
        /\ UNCHANGED <<Registry, Outside>>

NextConc ==
    \/ RegisterTextPre(ConcEndpoints, ConcTextFns)
    \/ RegisterPre(ConcEndpoints, ConcPre)
    \/ FetchShared
    \/ PreCallbackShared
    \/ TransportRespondsIn
    \/ ChainSettledIn

SpecConc == Init /\ [][NextConc]_vars

----------------------------------------------------------------------------
(* observer.ts: subscribeToLoad and the handling of removed elements *)

MaxLoadCallbacks == 3
MaxDeletions == 2

LoadingScreen == ".lol-loading-screen-container"

\* load callbacks: two that return and one that throws
LoadCallbacks == {"a", "b", "throw"}

\* removed elements: the loading screen, an element around it, another
\* element, an iframe
Elements == {"loading", "wrapper", "other", "iframe"}

\* the elements observerHandleElement visits for a removed element: the
\* element itself, then its children (lines 75-77); nothing for an iframe
\* (lines 37-50)
Visited(element) ==
    CASE element = "iframe" -> <<>>
      [] element = "wrapper" -> <<"wrapper", "loading">>
      [] OTHER -> <<element>>

\* matches(element, selector) of lines 16-18
matches(element, selector) == element = "loading" /\ selector = LoadingScreen

\* the loop of lines 168-170 over loadCallbacks from position i on: each
\* callback is called in turn; one that throws ends the loop
RECURSIVE CallLoadCallbacks(_, _, _)
CallLoadCallbacks(l, cbs, i) ==
    IF i > Len(cbs) THEN l
    ELSE LET l1 == [l EXCEPT !.called = Append(@, cbs[i])]
         IN  IF cbs[i] = "throw"
             THEN [l1 EXCEPT !.logged = @ + 1]
             ELSE CallLoadCallbacks(l1, cbs, i + 1)

\* the deletion callback installed by subscribeToLoad (lines 162-171); what
\* a load callback throws is caught and logged by the caller (lines 64-70)
LoadHandler(l) ==
    IF l.loadedOnce THEN l
    ELSE CallLoadCallbacks([l EXCEPT !.loadedOnce = TRUE, !.atLoad = l.loadCallbacks],
                           l.loadCallbacks, 1)

\* lines 63-71 for one visited element: every deletion entry whose selector
\* matches has its callback called
RECURSIVE HandleEntries(_, _, _)
HandleEntries(l, element, i) ==
    IF i > Len(l.entriesDeletion) THEN l
    ELSE HandleEntries(IF matches(element, l.entriesDeletion[i]) THEN LoadHandler(l) ELSE l,
                       element, i + 1)

\* observerHandleElement(element, false), lines 35-89
RECURSIVE observerHandleElement(_, _, _)
observerHandleElement(l, visited, i) ==
    IF i > Len(visited) THEN l
    ELSE observerHandleElement(HandleEntries(l, visited[i], 1), visited, i + 1)

\* subscribeToLoad(callback), lines 158-174, with the subscribeToElementDeletion
\* of lines 143-146 it makes on its first call
subscribeToLoad(callback) ==
    /\ Len(load.loadCallbacks) < MaxLoadCallbacks
    /\ load' = IF ~load.loadInitialized
               THEN [load EXCEPT !.loadInitialized = TRUE,
                                 !.observing = TRUE,
                                 !.entriesDeletion = Append(@, LoadingScreen),
                                 !.loadCallbacks = Append(@, callback)]
               ELSE [load EXCEPT !.loadCallbacks = Append(@, callback)]
    /\ UNCHANGED <<Registry, rq, options, setting>>

SubscribeToLoad == \E callback \in LoadCallbacks : subscribeToLoad(callback)

\* observerCallback (lines 91-105) for a mutation record with one removed node
ElementRemoved ==
    /\ load.observing
    /\ load.deletions < MaxDeletions
    /\ \E element \in Elements :
          load' = [observerHandleElement(load, Visited(element), 1) EXCEPT !.deletions = @ + 1]
    /\ UNCHANGED <<Registry, rq, options, setting>>

NextLoad == SubscribeToLoad \/ ElementRemoved

SpecLoad == Init /\ [][NextLoad]_vars

----------------------------------------------------------------------------
(* settings/simple-api.ts: class Setting *)

MaxListeners == 2
MaxSettingOps == 4

\* arguments of setValue: in range, out of range, not a number, NaN
SettingValues == {Num(5), Num(7), Num(11), StringValue, NaN}

\* listeners: two that return and one that throws
Listeners == {"l1", "l2", "throw"}

\* _save(value), lines 66-72: setItem either stores the text or throws, and
\* what it throws is caught and logged
save(st, value, stores) ==
    IF stores THEN [st EXCEPT !.stored = JSONstringify(value)] ELSE st

\* getValue(), lines 77-89; the item is never absent after the constructor
getValue(st) ==
    LET value == JSONparse(st.stored)
    IN  IF validator(value) THEN value ELSE NumberSetting.defaultValue

\* the loop of lines 103-109: every listener is called with value, each in a
\* try/catch of its own
NotifyListeners(st, value) ==
    [st EXCEPT !.notified = [i \in 1..Len(st.listeners) |->
                                [listener |-> st.listeners[i], value |-> value]]]

\* setValue(value), lines 94-110
setValue(value, stores) ==
    /\ setting.ops < MaxSettingOps
    /\ LET st == [setting EXCEPT !.op = "setValue", !.value = value,
                                 !.accepted = validator(value),
                                 !.before = setting.stored,
                                 !.listenersAt = setting.listeners,
                                 !.notified = <<>>, !.ops = @ + 1]
       IN  setting' = IF ~validator(value) THEN st
                      ELSE NotifyListeners(save(st, value, stores), value)
    /\ UNCHANGED <<Registry, rq, options, load>>

SetValue == \E value \in SettingValues, stores \in BOOLEAN : setValue(value, stores)

\* addListener(callback), lines 115-117
addListener(callback) ==
    /\ Len(setting.listeners) < MaxListeners
    /\ setting.ops < MaxSettingOps
    /\ setting' = [setting EXCEPT !.listeners = Append(@, callback),
                                  !.op = "addListener", !.ops = @ + 1]
    /\ UNCHANGED <<Registry, rq, options, load>>

AddListener == \E callback \in Listeners : addListener(callback)

\* indexOf(callback), 0 when the sequence does not hold it
RECURSIVE indexOf(_, _, _)
indexOf(seq, x, i) ==
    IF i > Len(seq) THEN 0 ELSE IF seq[i] = x THEN i ELSE indexOf(seq, x, i + 1)

\* removeListener(callback), lines 122-127
removeListener(callback) ==
    /\ setting.ops < MaxSettingOps
    /\ LET index == indexOf(setting.listeners, callback, 1)
           ls == setting.listeners
       IN  setting' = [setting EXCEPT
                          !.listeners = IF index = 0 THEN ls
                                        ELSE SubSeq(ls, 1, index - 1) \o SubSeq(ls, index + 1, Len(ls)),
                          !.op = "removeListener", !.ops = @ + 1]
    /\ UNCHANGED <<Registry, rq, options, load>>

RemoveListener == \E callback \in Listeners : removeListener(callback)

NextSetting == SetValue \/ AddListener \/ RemoveListener

SpecSetting == Init /\ [][NextSetting]_vars

----------------------------------------------------------------------------
(* The registry: exact strings, patterns that share a source, patterns     *)
(* that match the same URL, a global pattern, an endpoint of another type. *)

RegEndpoints == {Bar123Endpoint, BarPattern, BarPatternTwin, BarGlobal, DigitsPattern, BadEndpoint}
RegTextEndpoints == {Bar123Endpoint, BadEndpoint}
RegPre == {[kind |-> k, f |-> "none"] : k \in {"A", "B"}}
RegPost == {[kind |-> k, f |-> "none"] : k \in {"mark"}}
RegInputs == {StringInput(u) : u \in {Bar123, AbsBar123, Baz}}

FetchReg == \E r \in Reqs, input \in RegInputs : hookedFetch(r, input, NoInit)

NextReg ==
    \/ RegisterPre(RegEndpoints, RegPre)
    \/ RegisterPost(RegEndpoints, RegPost)
    \/ RegisterTextPre(RegTextEndpoints, {"id"})
    \/ RegisterTextPost(RegTextEndpoints, {"id"})
    \/ FetchReg
    \/ TransportResponds
    \/ PreCallback
    \/ PreChainSettled
    \/ Forget

SpecReg == Init /\ [][NextReg]_vars

----------------------------------------------------------------------------
(* Vocabulary of the properties *)

\* findMatchingEntry has run for the call
Resolved(q) == q.pc \notin {"idle", "readBody"}

\* the pattern matches the URL as a string: test on a fresh object of the
\* same source and flags
PatternMatches(regex, url) == RegExpTest([regex EXCEPT !.lastIndex = 0], url)

\* some registered matcher matches the URL
Matches(url) ==
    \/ url \in DOMAIN entriesText
    \/ \E i \in 1..Len(entriesRegex) : PatternMatches(entriesRegex[i][1], url)

PreKinds(q) == [i \in 1..Len(q.pre) |-> q.pre[i].kind]

RanIn(q, phase) == SelectSeq(q.ran, LAMBDA x : x.phase = phase)

ReadsBy(q, who) == SelectSeq(q.reads, LAMBDA x : x.by = who)

\* the bytes of a body; an absent body has none
Bytes(b) == IF b.t = "undefined" THEN <<>> ELSE b.v

\* the body fetch(input, init) sends: init.body, when given, replaces the
\* body of a Request passed as input
SentBody(input, reqInit) ==
    IF reqInit.def /\ reqInit.body.t # "undefined" THEN reqInit.body ELSE input.body

----------------------------------------------------------------------------
(* Properties *)

\* C1: for a call matching an entry with pre-callbacks A then B, where A never
\* invokes its continuation, B is never invoked and the transport is never
\* invoked for that call.
PreChainShortCircuit ==
    \A r \in Reqs :
        LET q == rq[r]
        IN  (Resolved(q) /\ Len(q.pre) = 2 /\ q.pre[1].kind \in {"mock", "hang"})
            => /\ q.calls = <<>>
               /\ \A n \in 1..Len(q.ran) : ~(q.ran[n].phase = "pre" /\ q.ran[n].i = 2)

\* C2: a call whose URL matches no registered matcher resolves to no entry,
\* runs no callback, calls the transport exactly once, and returns the
\* transport's own response object, which nothing has touched.
NoMatchTransparency ==
    \A r \in Reqs :
        LET q == rq[r]
        IN  /\ (Resolved(q) /\ ~Matches(q.url)) => q.entry = NoEntry
            /\ (Resolved(q) /\ q.entry = NoEntry) =>
                  /\ q.ran = <<>>
                  /\ Len(q.calls) = 1
                  /\ Len(q.heap) <= 1
                  /\ q.pc = "returned" =>
                        /\ q.ret = 1
                        /\ q.heap[1].from = 1
                        /\ q.heap[1].cloneOf = 0
                        /\ q.heap[1].text = NativeText
                        /\ q.heap[1].marks = <<>>
                        /\ q.reads = <<>> => ~q.heap[1].used
                        /\ q.reads # <<>> => q.reads[1].result = Str(q.heap[1].body)

NoMatchWitness ==
    \E r \in Reqs :
        /\ rq[r].pc = "returned"
        /\ rq[r].entry = NoEntry
        /\ rq[r].argInput = StringInput(Baz)
        /\ Foo \in DOMAIN entriesText
        /\ Len(entriesRegex) = 1
        /\ Len(rq[r].reads) = 1

\* C3: when no hook matches, the transport is called with the request
\* representation and the options the caller passed.
NoMatchCallContract ==
    \A r \in Reqs :
        LET q == rq[r]
        IN  (Resolved(q) /\ q.entry = NoEntry) =>
                \A n \in 1..Len(q.calls) :
                    q.calls[n] = [input |-> q.argInput, init |-> q.argInit]

\* C4: with pre-callbacks A then B, each invoking its continuation once with
\* a modified request, the transport observes the request as mutated by A and
\* then by B, and no other version of it.
PreChainOrdering ==
    \A r \in Reqs :
        LET q == rq[r]
        IN  (Resolved(q) /\ q.argInput.kind = "string" /\ PreKinds(q) = <<"A", "B">>) =>
                \A n \in 1..Len(q.calls) :
                    q.calls[n] = [input |-> q.argInput,
                                  init |-> WithHeader(WithHeader(q.argInit, "A"), "B")]

\* C5: with one pre-callback on '/foo' that continues with the method changed
\* to POST, a GET to '/foo' reaches the transport exactly once, as a POST with
\* every other field as sent; the transport never receives the GET.
SinglePreRewrite ==
    \A r \in Reqs :
        LET q == rq[r]
        IN  (/\ Resolved(q)
             /\ q.argInput = StringInput(Foo)
             /\ q.argInit.method \in {"GET", "undefined"}
             /\ q.entry = FooEndpoint
             /\ PreKinds(q) = <<"toPost">>) =>
                /\ \A n \in 1..Len(q.calls) :
                       q.calls[n] = [input |-> q.argInput,
                                     init |-> WithMethod(q.argInit, "POST")]
                /\ q.pc = "returned" => Len(q.calls) = 1

\* C6: whenever post-callbacks ran on a cloned response, the response returned
\* to the caller is that clone, with or without pre-callbacks.
ReturnsMutatedClone ==
    \A r \in Reqs :
        (rq[r].pc = "returned" /\ rq[r].clone # 0) => rq[r].ret = rq[r].clone

\* C7: two post-callbacks that each read the body text both obtain the
\* original text, and the response returned to the caller is still readable.
PostChainNonDestructiveRead ==
    \A r \in Reqs :
        LET q == rq[r]
            ran == RanIn(q, "post")
        IN  (/\ q.pc = "returned"
             /\ Len(ran) = 2
             /\ ran[1].kind = "read"
             /\ ran[2].kind = "read") =>
                /\ \A n \in 1..Len(ReadsBy(q, "post")) :
                       ReadsBy(q, "post")[n].result = Str(q.heap[q.clone].body)
                /\ ReadsBy(q, "caller") = <<>> =>
                       ReadText(q.heap, q.ret).result # TypeError

\* C8: after any number N >= 1 of calls of the registration functions, in any
\* mix, window.fetch has been replaced by hookedFetch exactly once.
IdempotentInstallation ==
    /\ nRegs = 0 => (installs = 0 /\ windowFetch = "native")
    /\ nRegs >= 1 => (installs = 1 /\ windowFetch = "hookedFetch")

IdempotentInstallationWitness ==
    /\ nRegs >= 2
    /\ installs = 1
    /\ \E u \in DOMAIN entriesText :
           /\ Len(entriesText[u].pre_callback) >= 1
           /\ Len(entriesText[u].post_callback) >= 1

\* C9: with hookTextPre and hookTextPost both passing the text through, on
\* the same matcher, a call with a textual or absent body reaches the
\* transport with the body the caller sent, and the caller reads the body
\* text the transport produced.
TextRoundTrip ==
    \A r \in Reqs :
        LET q == rq[r]
            sent == SentBody(q.argInput, q.argInit)
        IN  (/\ Resolved(q)
             /\ q.pre = <<[kind |-> "textPre", f |-> "id"]>>
             /\ EntryOf(q.entry).post_callback = <<[kind |-> "textPost", f |-> "id"]>>
             /\ sent.t \in {"undefined", "string"}) =>
                /\ \A n \in 1..Len(q.calls) : Bytes(q.calls[n].init.body) = Bytes(sent)
                /\ ReadsBy(q, "caller") # <<>> =>
                       /\ q.heap[q.ret].from >= 1
                       /\ ReadsBy(q, "caller")[1].result = Str(q.heap[q.ret].body)

----------------------------------------------------------------------------
(* Failures *)

\* the record of a callback that throws or rejects
Throws(e) ==
    \/ e.phase \in {"pre", "post"} /\ e.kind = "throw"
    \/ e.phase = "user" /\ e.f = "throw"

ContractCall(q, n) ==
    \/ q.entry = NoEntry
    \/ Len(q.pre) = 0
    \/ n > 1

\* C12: when a call of the transport rejects, the intercepted call rejects
\* with the transport's error; and an intercepted call rejects with a
\* transport error only if the call that failed is one the contract asks for
\* (no match, no pre-callbacks, or a continuation called by a pre-callback).
TransportFailureTransparency ==
    \A r \in Reqs :
        LET q == rq[r]
        IN  /\ q.failed # 0 => q.pc = "rejected" /\ q.err = "TransportError"
            /\ q.err = "TransportError" => q.failed # 0 /\ ContractCall(q, q.failed)

----------------------------------------------------------------------------
(* Registration *)

ValidEndpoint(endpoint) == endpoint.type \in {"string", "RegExp"}

\* the step is a registration call with an endpoint that is neither a string
\* nor a RegExp
InvalidRegistration ==
    /\ Len(regLog') = Len(regLog) + 1
    /\ ~ValidEndpoint(regLog'[Len(regLog')].endpoint)

\* C13: a call of hookPre, hookPost, hookTextPre or hookTextPost with an
\* endpoint that is neither a string nor a pattern throws a TypeError at the
\* call, and creates or modifies no hook entry; a call with a string or a
\* pattern does not throw.
InvalidMatcherFailsFast ==
    [][/\ InvalidRegistration => regThrew' /\ UNCHANGED <<entriesText, entriesRegex>>
       /\ (Len(regLog') = Len(regLog) + 1 /\ ~InvalidRegistration) => ~regThrew']_vars

\* hookTextPost has just thrown on an endpoint of another type, after a
\* valid registration whose entry is still the only one
InvalidMatcherWitness ==
    /\ Len(regLog) = 2
    /\ ValidEndpoint(regLog[1].endpoint)
    /\ regLog[2].fn = "hookTextPost"
    /\ regLog[2].endpoint = BadEndpoint
    /\ regThrew
    /\ Cardinality(DOMAIN entriesText) + Len(entriesRegex) = 1

----------------------------------------------------------------------------
(* hookTextPre on a body that is not a string *)

\* init?.body !== undefined && typeof init.body !== 'string'
NonTextual(i) == i.def /\ i.body.t # "undefined" /\ i.body.t # "string"

\* the pre-callback at position m is a hookTextPre adapter and it was called
\* with a body that is present and not a string
AdapterOnNonTextual(q, m) ==
    /\ m \in 1..Len(q.recv)
    /\ q.pre[m].kind = "textPre"
    /\ NonTextual(q.recv[m].init)

\* C14, as stated: when the body is present and not a string, the raw
\* pre-callback registered by hookTextPre rejects with a type error.
TextPreRejectsNonTextual ==
    \A r \in Reqs :
        LET q == rq[r]
        IN  \A m \in 1..Len(q.recv) :
                AdapterOnNonTextual(q, m) => q.pc = "rejected" /\ q.err = "TypeError"

\* C14, amended: when the body is present and not a string, the raw
\* pre-callback registered by hookTextPre does not reject with a type error;
\* its promise is the promise of the raw continuation: it is pending while the
\* transport call is, resolves with the response of that call and rejects
\* only with the transport's error.
TextPreNonTextualSettlesAsTransport ==
    \A r \in Reqs :
        LET q == rq[r]
        IN  \A m \in 1..Len(q.recv) :
                AdapterOnNonTextual(q, m) =>
                    /\ q.err # "TypeError"
                    /\ q.k = m => q.pc \in {"cb", "rejected"}
                    /\ (q.k = m /\ q.pc = "rejected") =>
                           q.err = "TransportError" /\ q.failed = q.recv[m].ncalls + 1
                    /\ (q.k = m + 1 /\ q.pc \in {"pre", "post"}) =>
                           q.heap[q.cur].from = q.recv[m].ncalls + 1

\* the adapter, alone in its chain, was called on a body that is not a string
\* and its promise has resolved with the response of the continuation's call
TextPreNonTextualWitness ==
    \E r \in Reqs :
        LET q == rq[r]
        IN  /\ PreKinds(q) = <<"textPre">>
            /\ AdapterOnNonTextual(q, 1)
            /\ q.k = 2
            /\ q.pc = "post"
            /\ q.heap[q.cur].from = 2

\* C15: when the body is present and not a string, hookTextPre falls back:
\* the user's text callback is not invoked, the raw continuation is called
\* with the request as the adapter received it, and the intercepted call
\* completes with the transport's response instead of failing.
TextPreFallback ==
    \A r \in Reqs :
        LET q == rq[r]
        IN  \A m \in 1..Len(q.recv) :
                AdapterOnNonTextual(q, m) =>
                    /\ \A n \in 1..Len(q.ran) : ~(q.ran[n].phase = "user" /\ q.ran[n].i = m)
                    /\ Len(q.calls) > q.recv[m].ncalls
                    /\ q.calls[q.recv[m].ncalls + 1] =
                           [input |-> q.recv[m].input, init |-> q.recv[m].init]
                    /\ q.pc = "rejected" => q.err \in {"TransportError", "CallbackError"}
                    /\ (q.pc = "returned" /\ m = Len(q.pre)) =>
                           q.heap[q.ret].from = q.recv[m].ncalls + 1

\* a call with a blob body went through the adapter and returned the
\* response of the transport call made with the same blob body
TextPreFallbackWitness ==
    \E r \in Reqs :
        LET q == rq[r]
        IN  /\ PreKinds(q) = <<"textPre">>
            /\ q.pc = "returned"
            /\ q.argInit.body = Obj(<<"blob">>)
            /\ Len(q.calls) = 2
            /\ q.calls[2].init.body = Obj(<<"blob">>)
            /\ q.heap[q.ret].from = 2
            /\ RanIn(q, "user") = <<>>

----------------------------------------------------------------------------
(* Matchers and their entries *)

\* two endpoints name the same matcher: the same string, or patterns with the
\* same source and flags
SameMatcher(a, b) ==
    /\ a.type = b.type
    /\ IF a.type = "RegExp" THEN RegExpToString(a) = RegExpToString(b) ELSE a.src = b.src

PreFns == {"hookPre", "hookTextPre"}
PostFns == {"hookPost", "hookTextPost"}

\* the callbacks handed to the functions fns for the matcher key, in the
\* order of the calls, among the first upto registration calls
LoggedCallbacks(fns, key, upto) ==
    LET sel == SelectSeq(SubSeq(regLog, 1, upto),
                         LAMBDA e : e.fn \in fns /\ SameMatcher(e.endpoint, key))
    IN  [n \in 1..Len(sel) |-> sel[n].callback]

\* C16: the registry holds at most one entry per exact string and per pattern
\* source representation (two pattern objects with the same source and flags
\* share one entry), every matcher registered has its entry, and an entry
\* holds exactly the callbacks registered for its matcher, in the order of
\* the calls: a registration for an existing matcher appends to its entry.
MatcherUniqueness ==
    /\ \A i, j \in 1..Len(entriesRegex) :
          i # j => RegExpToString(entriesRegex[i][1]) # RegExpToString(entriesRegex[j][1])
    /\ \A u \in DOMAIN entriesText :
          LET key == [type |-> "string", src |-> u]
          IN  /\ entriesText[u].pre_callback = LoggedCallbacks(PreFns, key, Len(regLog))
              /\ entriesText[u].post_callback = LoggedCallbacks(PostFns, key, Len(regLog))
    /\ \A i \in 1..Len(entriesRegex) :
          LET key == entriesRegex[i][1]
          IN  /\ entriesRegex[i][2].pre_callback = LoggedCallbacks(PreFns, key, Len(regLog))
              /\ entriesRegex[i][2].post_callback = LoggedCallbacks(PostFns, key, Len(regLog))
    /\ \A n \in 1..Len(regLog) :
          LET endpoint == regLog[n].endpoint
          IN  /\ endpoint.type = "string" => endpoint.src \in DOMAIN entriesText
              /\ endpoint.type = "RegExp" =>
                     \E i \in 1..Len(entriesRegex) : SameMatcher(entriesRegex[i][1], endpoint)

\* two objects of the same pattern literal were registered, one with hookPre
\* and one with hookPost: one entry holds both callbacks
MatcherUniquenessWitness ==
    /\ Len(regLog) = 2
    /\ regLog[1].fn = "hookPre" /\ regLog[1].endpoint = BarPattern
    /\ regLog[2].fn = "hookPost" /\ regLog[2].endpoint = BarPatternTwin
    /\ Len(entriesRegex) = 1
    /\ Len(entriesRegex[1][2].pre_callback) = 1
    /\ Len(entriesRegex[1][2].post_callback) = 1

\* the registration calls, among the first upto, whose endpoint is a pattern
\* that matches the URL
MatchingPatterns(url, upto) ==
    {n \in 1..upto : /\ regLog[n].endpoint.type = "RegExp"
                     /\ PatternMatches(regLog[n].endpoint, url)}

\* C17: resolving a URL gives the entry of the exact string if one was
\* registered, even when patterns that match were registered earlier;
\* otherwise the entry of the first-registered pattern that matches;
\* otherwise none.  Every callback run for a request is a callback of that
\* one entry.
ResolvePrecedence ==
    \A r \in Reqs :
        LET q == rq[r]
            exact == [type |-> "string", src |-> q.url]
            pats == MatchingPatterns(q.url, q.regsAt)
            pre == LoggedCallbacks(PreFns, q.entry, Len(regLog))
            post == LoggedCallbacks(PostFns, q.entry, Len(regLog))
        IN  Resolved(q) =>
              /\ IF \E n \in 1..q.regsAt : regLog[n].endpoint = exact
                 THEN q.entry = exact
                 ELSE IF pats # {}
                 THEN LET first == CHOOSE n \in pats : \A k \in pats : n <= k
                      IN  SameMatcher(q.entry, regLog[first].endpoint)
                 ELSE q.entry = NoEntry
              /\ \A n \in 1..Len(q.ran) :
                    LET e == q.ran[n]
                        cb == [kind |-> e.kind, f |-> e.f]
                    IN  /\ e.phase = "pre" => e.i <= Len(pre) /\ pre[e.i] = cb
                        /\ e.phase = "post" => e.i <= Len(post) /\ post[e.i] = cb

----------------------------------------------------------------------------
(* Order of the chains *)

CallbackOf(e) == [kind |-> e.kind, f |-> e.f]

\* C18: the pre-callbacks of a request run in registration order, one at a
\* time: the chain is the sequence of the hookPre / hookTextPre calls made for
\* the matcher, callback k+1 starts only after the promise returned by
\* callback k has resolved, and each callback receives the (input, init) pair
\* of the latest call of the transport, that is, the pair last passed to a
\* continuation by the callbacks before it (the request itself when none of
\* them called one).
PreChainSequential ==
    \A r \in Reqs :
        LET q == rq[r]
            ranPre == RanIn(q, "pre")
        IN  (Resolved(q) /\ Len(q.pre) > 0) =>
              /\ q.pre = LoggedCallbacks(PreFns, q.entry, q.regsAt)
              /\ Len(ranPre) = Len(q.recv)
              /\ \A n \in 1..Len(ranPre) :
                    /\ ranPre[n].i = n
                    /\ CallbackOf(ranPre[n]) = q.pre[n]
              /\ Len(ranPre) <= q.k
              /\ q.pc = "fetch0" => Len(ranPre) = 0
              /\ q.pc = "pre" => Len(ranPre) = q.k - 1
              /\ q.pc = "cb" => Len(ranPre) = q.k
              /\ \A n \in 1..Len(q.recv) :
                    /\ q.recv[n].ncalls \in 1..Len(q.calls)
                    /\ q.calls[q.recv[n].ncalls] =
                           [input |-> q.recv[n].input, init |-> q.recv[n].init]

\* "A" and then a hookTextPre adapter: the adapter has been called with the
\* init "A" passed to its continuation
PreChainSequentialWitness ==
    \E r \in Reqs :
        LET q == rq[r]
        IN  /\ PreKinds(q) = <<"A", "textPre">>
            /\ Len(q.recv) = 2
            /\ q.recv[2].ncalls = 2
            /\ q.recv[2].init.headers = Obj(<<"A">>)
            /\ q.pc = "cb"

PostAfterPre ==
    \A r \in Reqs :
        LET q == rq[r]
        IN  Len(q.pre) > 0 =>
              /\ RanIn(q, "post") # <<>> =>
                    /\ q.k > Len(q.pre)
                    /\ Len(RanIn(q, "pre")) = Len(q.pre)
                    /\ q.pc \in {"returned", "rejected"}
                    /\ q.heap[q.clone].cloneOf = q.cur
              /\ \A a, b \in 1..Len(q.ran) :
                    (q.ran[a].phase = "post" /\ q.ran[b].phase # "post") => b < a
              /\ \/ q.pc \in {"fetch0", "pre", "cb", "hung"}
                 \/ q.failed # 0
                 \/ \E n \in 1..Len(q.ran) : q.ran[n].phase # "post" /\ Throws(q.ran[n])
                 => RanIn(q, "post") = <<>>

\* a pre-callback and then a post-callback have run and the call has returned
PostAfterPreWitness ==
    \E r \in Reqs :
        LET q == rq[r]
        IN  /\ q.pc = "returned"
            /\ Len(q.ran) = 2
            /\ q.ran[1].phase = "pre"
            /\ q.ran[2].phase = "post"
            /\ q.k = 2

----------------------------------------------------------------------------
(* Text hooks *)

\* C21: when the text callback of a hookTextPre adapter calls its
\* continuation with a defined text, the raw continuation, and so the
\* transport, is called with a request whose body is that text; when it calls
\* it with undefined the request is passed on as it was.  This holds for
\* every request, one made without an options object included.
TextPreSubstitution ==
    \A r \in Reqs :
        LET q == rq[r]
        IN  \A n \in 1..Len(q.ran) :
                (q.ran[n].phase = "user" /\ q.pc # "rejected") =>
                    LET m == q.ran[n].i
                        got == q.recv[m].init
                        newBody == UserBody(q.ran[n].f, IF got.def THEN got.body ELSE Undefined)
                        sent == q.calls[q.recv[m].ncalls + 1]
                    IN  /\ sent.input = q.recv[m].input
                        /\ IF newBody.t # "undefined"
                           THEN sent.init.def /\ sent.init.body = newBody
                           ELSE sent.init = got

\* C22: the text callback of a hookTextPost adapter is not invoked when the
\* post-callback runs: until a consumer reads the body text of the returned
\* response no body stream of the call has been read; and every body-text
\* read a consumer makes on the returned response succeeds, the stream of the
\* extra clone being read once.
TextPostLazySingleRead ==
    \A r \in Reqs :
        LET q == rq[r]
        IN  (q.pc = "returned" /\ q.heap[q.ret].text.over) =>
              /\ q.reads = <<>> => \A id \in 1..Len(q.heap) : ~q.heap[id].used
              /\ \A n \in 1..Len(q.reads) :
                    q.reads[n].by = "caller" => q.reads[n].result.t = "string"

\* the call was made with a Request whose body is read at normalization and
\* cannot be read as text
UnreadableBody(q) ==
    /\ q.pc # "idle"
    /\ ReadsBody(q.argInput)
    /\ q.argInput.body.t = "object"

\* C24: when the request is a Request object, not GET or HEAD, whose body
\* cannot be read as text at normalization, no text callback of a hookTextPre
\* hook is invoked for it, and the transport is still called.
UnreadableBodySkipsTextHooks ==
    \A r \in Reqs :
        LET q == rq[r]
        IN  UnreadableBody(q) =>
              /\ RanIn(q, "user") = <<>>
              /\ Resolved(q) => Len(q.calls) >= 1

\* the text functions fs applied one after the other, the first one first
RECURSIVE ComposeText(_, _)
ComposeText(fs, text) ==
    IF fs = <<>> THEN text ELSE ComposeText(Tail(fs), TextApply(Head(fs), text))

\* C25: when the post-callbacks run for a call are hookTextPost adapters
\* T1, ..., Tn in registration order, with text functions f1, ..., fn, the
\* caller's read of the returned response's body text gives
\* fn(...f1(original text)): no registered transform is dropped.
TextPostCompose ==
    \A r \in Reqs :
        LET q == rq[r]
            ranPost == RanIn(q, "post")
        IN  ( /\ q.pc = "returned"
              /\ q.pre = <<>>
              /\ Len(ranPost) >= 1
              /\ \A n \in 1..Len(ranPost) : ranPost[n].kind = "textPost"
              /\ Len(q.reads) >= 1 ) =>
                q.reads[1].result =
                    Str(ComposeText([n \in 1..Len(ranPost) |-> ranPost[n].f], q.heap[1].body))

----------------------------------------------------------------------------
(* Resolve and registration as state changes *)

ResolveUrls == {Foo, Bar123, AbsBar123, Baz}

\* C26: a step that is no registration call, a resolve in particular, leaves
\* the registry as it was, the patterns with their flags and lastIndex
\* included, so that resolving any URL gives afterwards the entry it gave
\* before.
ResolveSideEffectFree ==
    [][Len(regLog') = Len(regLog) =>
          /\ entriesText' = entriesText
          /\ entriesRegex' = entriesRegex
          /\ \A url \in ResolveUrls : findMatchingEntry(url)' = findMatchingEntry(url)]_vars

\* C27: a registration call that throws because of its endpoint leaves the
\* whole state as it was, the installer included: _initOnce has not fired
\* and window.fetch is not replaced by the call.
FailedRegistrationChangesNothing ==
    [][InvalidRegistration =>
          UNCHANGED <<entriesText, entriesRegex, initOnce, installs, windowFetch, rq>>]_vars

\* C28: the callbacks run for a call are callbacks the matched entry held
\* when the call was resolved, in their positions: a callback registered for
\* the same matcher while the call is in flight is not run for it.
RegistrationRace ==
    \A r \in Reqs :
        LET q == rq[r]
            pre == LoggedCallbacks(PreFns, q.entry, q.regsAt)
            post == LoggedCallbacks(PostFns, q.entry, q.regsAt)
        IN  Resolved(q) =>
              \A n \in 1..Len(q.ran) :
                  LET e == q.ran[n]
                  IN  /\ e.phase = "pre" => e.i <= Len(pre) /\ pre[e.i] = CallbackOf(e)
                      /\ e.phase = "post" => e.i <= Len(post) /\ post[e.i] = CallbackOf(e)



\* C23: of two calls in flight at the same time, a step taken for one (a
\* callback run, a mutation of its request) leaves the other as it was, so
\* each has the outcome it would have had alone
ConcurrentIndependence ==
    [][\A r, s \in Slots :
          (r # s /\ InFlight(rq[r]) /\ InFlight(rq[s]) /\ rq'[r] # rq[r])
              => rq'[s] = rq[s]]_vars


\* C29: once an element matching the loading-screen selector has been
\* removed, every load callback subscribed before that removal has been
\* called exactly once, in subscription order, none is called on a later
\* removal, and one deletion subscription is installed however often
\* subscribeToLoad is called
LoadFiresOnce ==
    /\ Len(load.entriesDeletion) <= 1
    /\ load.loadedOnce => load.called = load.atLoad
    /\ ~load.loadedOnce => load.called = <<>>


\* C30: after setValue(v) with a value the validator rejects, the stored
\* value is what it was and no listener has been notified; after setValue(v)
\* with an accepted value, getValue() returns v and every listener registered
\* at the call has been notified exactly once with v, in registration order,
\* a listener that throws included
SetValueContract ==
    setting.op = "setValue" =>
        IF setting.accepted
        THEN /\ getValue(setting) = setting.value
             /\ setting.notified = [i \in 1..Len(setting.listenersAt) |->
                                       [listener |-> setting.listenersAt[i],
                                        value |-> setting.value]]
        ELSE /\ setting.stored = setting.before
             /\ setting.notified = <<>>

====
